---- MODULE Spec2Model ----
(***************************************************************************)
(* NAT gateway lifecycle scripts for a Databricks workspace VPC:           *)
(*   src/aws/create_nat_gateway.py  (CreateNATGateway)                     *)
(*   src/aws/delete_nat_gateway.py  (DeleteNATGateway)                     *)
(*                                                                         *)
(* The state is the EC2 account the scripts talk to (VPCs, route tables,   *)
(* subnets, NAT gateways, elastic IP allocations), the two script objects  *)
(* (their attributes, the locals of run() and the position in the code)    *)
(* and the log of the EC2 API calls issued so far.  Every EC2 call is one  *)
(* step.  Strings that the code searches for substrings are sequences of   *)
(* tokens; identifiers are positive integers, 0 standing for "not set".    *)
(***************************************************************************)
EXTENDS Integers, Sequences, FiniteSets, TLC

VARIABLES
    vpcs,          \* describe_vpcs()['Vpcs']: list of [VpcId, Tags]
    routeTables,   \* list of [RouteTableId, VpcId, Main, Routes]
    subnets,       \* list of [SubnetId, VpcId, Tags]
    natGateways,   \* list of [NatGatewayId, SubnetId, State, AllocationId]
    addresses,     \* set of allocated elastic IP allocation ids
    creator,       \* the CreateNATGateway object and its run() frame
    deleter,       \* the DeleteNATGateway object and its run() frame
    calls          \* EC2 API calls issued, in order, with their outcome

vars == <<vpcs, routeTables, subnets, natGateways, addresses, creator, deleter, calls>>

cloud == <<vpcs, routeTables, subnets, natGateways, addresses>>

-----------------------------------------------------------------------------
(* Bounds of the model *)

MaxVpcs == 2
MaxRouteTables == 2
MaxSubnets == 2
MaxGateways == 2
MaxPolls == 2

-----------------------------------------------------------------------------
(* Strings and tags *)

\* Python's `sub in s` on strings.
Contains(sub, s) ==
    \E i \in 0..(Len(s) - Len(sub)) : SubSeq(s, i + 1, i + Len(sub)) = sub

\* f'workerenv-{workspace_id}'
WorkerenvName(workspace_id) == <<"workerenv-">> \o workspace_id

NatSubnetName == <<"nat-gateway-subnet">>

DefaultCidr == "0.0.0.0/0"

Tag(k, v) == [Key |-> k, Value |-> v]

\* Workspace ids the scripts are started with.
WorkspaceIds == { <<"1">>, <<"1", "2">> }

\* Tag lists a VPC may carry (tag keys are unique per resource).
VpcTagChoices ==
    { <<Tag("Name", <<"workerenv-", "1">>)>>,
      <<Tag("Env", <<"prod">>), Tag("Name", <<"databricks-", "workerenv-", "1", "2", "-vpc">>)>>,
      <<Tag("name", <<"workerenv-", "1">>)>>,
      <<>> }

\* Tag lists a subnet may carry.
SubnetTagChoices ==
    { <<Tag("Name", <<"nat-gateway-subnet">>)>>,
      <<Tag("Env", <<"prod">>), Tag("Name", <<"ws-", "nat-gateway-subnet", "-a">>)>>,
      <<Tag("Role", <<"nat-gateway-subnet">>), Tag("Name", <<"private-subnet">>)>> }

\* All lists of length 0..n over S.
ListsUpTo(S, n) == UNION { [1..k -> S] : k \in 0..n }

Repeat(x, n) == [i \in 1..n |-> x]

\* A call's result: a value, or the exception it raised.
Ok(v) == [exc |-> "", val |-> v]

Raise(e) == [exc |-> e, val |-> 0]

-----------------------------------------------------------------------------
(* The EC2 API as the scripts call it *)

\* describe_route_tables(Filters=[vpc-id, association.main=true])['RouteTables']
DescribeMainRouteTables(vpc_id) ==
    SelectSeq(routeTables, LAMBDA t : t.VpcId = vpc_id /\ t.Main)

\* describe_subnets(Filters=[vpc-id])['Subnets']
DescribeSubnets(vpc_id) ==
    SelectSeq(subnets, LAMBDA s : s.VpcId = vpc_id)

\* describe_nat_gateways(NatGatewayIds=[id])['NatGateways'] and
\* describe_nat_gateways(Filters=[nat-gateway-id])['NatGateways']
DescribeNatGatewaysById(id) ==
    SelectSeq(natGateways, LAMBDA g : g.NatGatewayId = id)

\* describe_nat_gateways(Filters=[subnet-id, state=available])['NatGateways']
DescribeAvailableNatGateways(subnet_id) ==
    SelectSeq(natGateways, LAMBDA g : g.SubnetId = subnet_id /\ g.State = "available")

\* describe_route_tables(RouteTableIds=[id])['RouteTables']
DescribeRouteTablesById(id) ==
    SelectSeq(routeTables, LAMBDA t : t.RouteTableId = id)

DefaultRoutes(routes) == { r \in routes : r.DestinationCidrBlock = DefaultCidr }

NatRoute(nat_gateway_id) ==
    [DestinationCidrBlock |-> DefaultCidr, GatewayId |-> "", NatGatewayId |-> nat_gateway_id]

IgwRoute ==
    [DestinationCidrBlock |-> DefaultCidr, GatewayId |-> "igw", NatGatewayId |-> 0]

LocalRoute ==
    [DestinationCidrBlock |-> "10.0.0.0/16", GatewayId |-> "local", NatGatewayId |-> 0]

\* Effect of a successful delete_route(RouteTableId, DestinationCidrBlock='0.0.0.0/0').
RoutesAfterDelete(tables, route_table) ==
    [i \in 1..Len(tables) |->
        IF tables[i].RouteTableId = route_table
        THEN [tables[i] EXCEPT !.Routes = @ \ DefaultRoutes(@)]
        ELSE tables[i]]

\* Effect of a successful create_route(DestinationCidrBlock='0.0.0.0/0', NatGatewayId, RouteTableId).
RoutesAfterCreate(tables, route_table, nat_gateway_id) ==
    [i \in 1..Len(tables) |->
        IF tables[i].RouteTableId = route_table
        THEN [tables[i] EXCEPT !.Routes = @ \cup {NatRoute(nat_gateway_id)}]
        ELSE tables[i]]

\* The routes of the table with the given id (empty when there is no such table).
RoutesOf(tables, route_table) ==
    UNION { tables[i].Routes : i \in { j \in 1..Len(tables) : tables[j].RouteTableId = route_table } }

\* str(e) of a botocore ClientError with the given error code.
ClientErrorStr(code, operation) ==
    <<"An error occurred (", code, ") when calling the ", operation, " operation">>

\* An id the provider has not handed out yet.
FreshId(used) == IF used = {} THEN 1 ELSE 1 + CHOOSE m \in used : \A u \in used : u <= m

Call(by, api, args, res, out) ==
    [by |-> by, api |-> api, args |-> args, res |-> res, out |-> out]

-----------------------------------------------------------------------------
(* Resource discovery, create_nat_gateway.py *)

\* Number of tags with Key == 'Name' and needle in Value.
NameTagMatches(tags, needle) ==
    Cardinality({ i \in 1..Len(tags) : tags[i].Key = "Name" /\ Contains(needle, tags[i].Value) })

\* The list built by the nested loops: one entry per matching tag, in order.
RECURSIVE MatchedByNameTag(_, _)
MatchedByNameTag(items, needle) ==
    IF items = <<>> THEN <<>>
    ELSE Repeat(Head(items), NameTagMatches(Head(items).Tags, needle))
            \o MatchedByNameTag(Tail(items), needle)

\* The lookup settling for the first match instead of requiring exactly one.
C_find_vpc_id_by_name_first(workspace_id) ==
    LET matched_vpcs == MatchedByNameTag(vpcs, WorkerenvName(workspace_id))
    IN  IF Len(matched_vpcs) = 0 THEN Raise("ValueError")
        ELSE Ok(matched_vpcs[1].VpcId)

C_find_vpc_id_by_name(workspace_id) ==
    LET matched_vpcs == MatchedByNameTag(vpcs, WorkerenvName(workspace_id))
    IN  IF Len(matched_vpcs) # 1 THEN Raise("ValueError")
        ELSE Ok(matched_vpcs[1].VpcId)

\* The lookup taking the last table of the response instead of the first.
C_find_default_route_table_by_vpcid_last(vpc_id) ==
    LET response == DescribeMainRouteTables(vpc_id)
    IN  IF Len(response) = 0 THEN Raise("IndexError")
        ELSE Ok(response[Len(response)].RouteTableId)

C_find_default_route_table_by_vpcid(vpc_id) ==
    LET response == DescribeMainRouteTables(vpc_id)
    IN  IF Len(response) = 0 THEN Raise("IndexError")
        ELSE Ok(response[1].RouteTableId)

\* The lookup filtering the subnets of every VPC instead of the located one's.
C_find_subnet_id_for_natgw_any_vpc(vpc_id) ==
    LET matched_subnets == MatchedByNameTag(subnets, NatSubnetName)
    IN  IF Len(matched_subnets) # 1 THEN Raise("ValueError")
        ELSE Ok(matched_subnets[1].SubnetId)

C_find_subnet_id_for_natgw_by_vpc_id(vpc_id) ==
    LET matched_subnets == MatchedByNameTag(DescribeSubnets(vpc_id), NatSubnetName)
    IN  IF Len(matched_subnets) # 1 THEN Raise("ValueError")
        ELSE Ok(matched_subnets[1].SubnetId)

-----------------------------------------------------------------------------
(* The script objects *)

NewScript ==
    [pc |-> "new", workspace_id |-> <<>>, vpc_id |-> 0, route_table |-> 0,
     subnet_id_for_natgw |-> 0, eip_association_id |-> 0, natgw_id |-> 0,
     polls |-> 0, exc |-> "", ret |-> 0]

\* An exception that is caught and logged: the method returns as if it had succeeded.
Raised_logged(obj, e) == [obj EXCEPT !.pc = "returned", !.exc = e]

\* An exception leaves the script: nothing catches it, the process exits.
Raised(obj, e) == [obj EXCEPT !.pc = "raised", !.exc = e]

Logged(c) == calls' = Append(calls, c)

-----------------------------------------------------------------------------
(* CreateNATGateway, src/aws/create_nat_gateway.py *)

\* run() with the wait for the gateway left out.
C_run_after_nowait(step) ==
    CASE step = "find_vpc" -> "find_route_table"
      [] step = "find_route_table" -> "find_subnet"
      [] step = "find_subnet" -> "create_eip"
      [] step = "create_eip" -> "create_natgw"
      [] step = "create_natgw" -> "update_route_table"
      [] step = "check_status" -> "update_route_table"
      [] step = "update_route_table" -> "returned"

\* The statement that follows a completed statement of __init__ and run().
C_run_after(step) ==
    CASE step = "find_vpc" -> "find_route_table"
      [] step = "find_route_table" -> "find_subnet"
      [] step = "find_subnet" -> "create_eip"
      [] step = "create_eip" -> "create_natgw"
      [] step = "create_natgw" -> "check_status"
      [] step = "check_status" -> "update_route_table"
      [] step = "update_route_table" -> "returned"

\* __init__, line 15: self.vpc_id = self._find_vpc_id_by_name(workspace_id)
C_init_vpc_id(ws) ==
    /\ creator.pc = "new"
    /\ deleter.pc = "new"
    /\ \E res \in {"ok", "client_error"} :
        LET r == IF res = "ok" THEN C_find_vpc_id_by_name(ws) ELSE Raise("ClientError")
            c == [creator EXCEPT !.workspace_id = ws]
        IN  /\ creator' = IF r.exc # "" THEN Raised(c, r.exc)
                          ELSE [c EXCEPT !.pc = C_run_after("find_vpc"), !.vpc_id = r.val]
            /\ Logged(Call("create", "describe_vpcs", <<>>, res, r.val))
    /\ UNCHANGED <<cloud, deleter>>

\* __init__, line 16: self.route_table = self._find_default_route_table_by_vpcid(self.vpc_id)
C_init_route_table ==
    /\ creator.pc = "find_route_table"
    /\ \E res \in {"ok", "client_error"} :
        LET r == IF res = "ok" THEN C_find_default_route_table_by_vpcid(creator.vpc_id)
                 ELSE Raise("ClientError")
        IN  /\ creator' = IF r.exc # "" THEN Raised(creator, r.exc)
                          ELSE [creator EXCEPT !.pc = C_run_after("find_route_table"), !.route_table = r.val]
            /\ Logged(Call("create", "describe_route_tables", <<creator.vpc_id>>, res, r.val))
    /\ UNCHANGED <<cloud, deleter>>

\* __init__, line 17: self.subnet_id_for_natgw = self._find_subnet_id_for_natgw_by_vpc_id(self.vpc_id)
C_init_subnet_id ==
    /\ creator.pc = "find_subnet"
    /\ \E res \in {"ok", "client_error"} :
        LET r == IF res = "ok" THEN C_find_subnet_id_for_natgw_by_vpc_id(creator.vpc_id)
                 ELSE Raise("ClientError")
        IN  /\ creator' = IF r.exc # "" THEN Raised(creator, r.exc)
                          ELSE [creator EXCEPT !.pc = C_run_after("find_subnet"), !.subnet_id_for_natgw = r.val]
            /\ Logged(Call("create", "describe_subnets", <<creator.vpc_id>>, res, r.val))
    /\ UNCHANGED <<cloud, deleter>>

\* run, line 161: eip_association_id = self.create_eip()
C_create_eip ==
    /\ creator.pc = "create_eip"
    /\ \E res \in {"ok", "http_error", "client_error"} :
        LET id == FreshId(addresses \cup { natGateways[i].AllocationId : i \in 1..Len(natGateways) })
        IN  \/ /\ res = "ok"
               /\ addresses' = addresses \cup {id}
               /\ creator' = [creator EXCEPT !.pc = C_run_after("create_eip"), !.eip_association_id = id]
               /\ Logged(Call("create", "allocate_address", <<>>, res, id))
            \/ /\ res # "ok"
               /\ addresses' = addresses
               /\ creator' = Raised(creator, IF res = "http_error" THEN "ValueError" ELSE "ClientError")
               /\ Logged(Call("create", "allocate_address", <<>>, res, 0))
    /\ UNCHANGED <<vpcs, routeTables, subnets, natGateways, deleter>>

\* run, line 162: natgw_id = self.create_natgw(eip_association_id)
C_create_natgw ==
    /\ creator.pc = "create_natgw"
    /\ \E res \in {"ok", "http_error", "client_error"} :
        LET id == FreshId({ natGateways[i].NatGatewayId : i \in 1..Len(natGateways) })
            args == <<creator.eip_association_id, creator.subnet_id_for_natgw>>
        IN  \/ /\ res = "ok"
               /\ natGateways' = Append(natGateways,
                      [NatGatewayId |-> id, SubnetId |-> creator.subnet_id_for_natgw,
                       State |-> "pending", AllocationId |-> creator.eip_association_id])
               /\ creator' = [creator EXCEPT !.pc = C_run_after("create_natgw"), !.natgw_id = id]
               /\ Logged(Call("create", "create_nat_gateway", args, res, id))
            \/ /\ res # "ok"
               /\ natGateways' = natGateways
               /\ creator' = Raised(creator, IF res = "http_error" THEN "ValueError" ELSE "ClientError")
               /\ Logged(Call("create", "create_nat_gateway", args, res, 0))
    /\ UNCHANGED <<vpcs, routeTables, subnets, addresses, deleter>>

\* The polling loop returning as soon as the gateway exists, pending or not.
check_nat_gateway_status_pending_ok(state) ==
    IF state \in {"available", "pending"} THEN "return" ELSE "raise"

\* The polling loop giving up instead of sleeping: a pending gateway raises.
check_nat_gateway_status_no_sleep(state) ==
    IF state = "available" THEN "return" ELSE "raise"

\* The polling loop without its else branch: any state but available is waited out.
check_nat_gateway_status_no_raise(state) ==
    IF state = "available" THEN "return" ELSE "sleep"

\* What one pass of the polling loop does with the polled state (lines 112-118).
check_nat_gateway_status(state) ==
    IF state = "available" THEN "return"
    ELSE IF state = "pending" THEN "sleep"
    ELSE "raise"

\* run, line 163: one iteration of the while True loop of check_nat_gateway_status
C_check_nat_gateway_status ==
    /\ creator.pc = "check_status"
    /\ \E res \in {"ok", "client_error"} :
        LET response == DescribeNatGatewaysById(creator.natgw_id)
            state == IF res = "ok" THEN response[1].State ELSE "ClientError"
            step == IF res = "ok" THEN check_nat_gateway_status(state) ELSE "raise"
        IN  /\ step = "sleep" => creator.polls < MaxPolls
            /\ creator' = IF step = "return"
                              THEN [creator EXCEPT !.pc = C_run_after("check_status"), !.polls = @ + 1]
                          ELSE IF step = "sleep"
                              THEN [creator EXCEPT !.polls = @ + 1]
                          ELSE [Raised(creator, "ValueError") EXCEPT !.polls = @ + 1]
            /\ Logged(Call("create", "describe_nat_gateways", <<creator.natgw_id>>, state, 0))
    /\ UNCHANGED <<cloud, deleter>>

\* The except clause treating every ClientError as a missing route.
update_route_table_except_lenient(e_str) == "continue"

\* The except clause re-raising every ClientError.
update_route_table_except_strict(e_str) == "raise"

\* The except clause of update_route_table (lines 136-140), given str(e).
update_route_table_except(e_str) ==
    IF Contains(<<"InvalidRoute.NotFound">>, e_str) THEN "continue" ELSE "raise"

\* run, line 164, first half of update_route_table: the delete_route call (lines 129-140)
C_update_route_table_delete ==
    /\ creator.pc = "update_route_table"
    /\ \E fault \in {"none", "http_error", "client_error"} :
        LET present == DefaultRoutes(RoutesOf(routeTables, creator.route_table)) # {}
            code == IF fault = "client_error" THEN "UnauthorizedOperation"
                    ELSE IF fault = "none" /\ ~present THEN "InvalidRoute.NotFound"
                    ELSE ""
            res == IF code # "" THEN code ELSE IF fault = "none" THEN "ok" ELSE fault
            after == IF code = "" THEN "continue"
                     ELSE update_route_table_except(ClientErrorStr(code, "DeleteRoute"))
        IN  /\ routeTables' = IF res = "ok" THEN RoutesAfterDelete(routeTables, creator.route_table)
                              ELSE routeTables
            /\ creator' = IF after = "continue" THEN [creator EXCEPT !.pc = "create_route"]
                          ELSE Raised(creator, "ClientError")
            /\ Logged(Call("create", "delete_route", <<creator.route_table>>, res, 0))
    /\ UNCHANGED <<vpcs, subnets, natGateways, addresses, deleter>>

\* run, lines 164-165, second half of update_route_table: the create_route call
\* (lines 143-151), then return natgw_id
C_update_route_table_create ==
    /\ creator.pc = "create_route"
    /\ \E fault \in {"none", "http_error", "client_error"} :
        LET present == DefaultRoutes(RoutesOf(routeTables, creator.route_table)) # {}
            res == IF fault = "client_error" THEN "UnauthorizedOperation"
                   ELSE IF fault = "http_error" THEN fault
                   ELSE IF present THEN "RouteAlreadyExists"
                   ELSE "ok"
        IN  /\ routeTables' = IF res = "ok"
                              THEN RoutesAfterCreate(routeTables, creator.route_table, creator.natgw_id)
                              ELSE routeTables
            /\ creator' = IF res = "ok" THEN [creator EXCEPT !.pc = C_run_after("update_route_table"), !.ret = creator.natgw_id]
                          ELSE IF res = "http_error" THEN Raised(creator, "ValueError")
                          ELSE Raised(creator, "ClientError")
            /\ Logged(Call("create", "create_route", <<creator.route_table, creator.natgw_id>>, res, 0))
    /\ UNCHANGED <<vpcs, subnets, natGateways, addresses, deleter>>

-----------------------------------------------------------------------------
(* The provider *)

\* A NAT gateway's state moves on by itself: pending -> available | failed,
\* deleting -> deleted.
ProviderAdvance ==
    /\ \E i \in 1..Len(natGateways) :
        \E s \in {"available", "failed", "deleted"} :
            /\ \/ natGateways[i].State = "pending" /\ s \in {"available", "failed"}
               \/ natGateways[i].State = "deleting" /\ s = "deleted"
            /\ natGateways' = [natGateways EXCEPT ![i].State = s]
    /\ UNCHANGED <<vpcs, routeTables, subnets, addresses, creator, deleter, calls>>

-----------------------------------------------------------------------------
(* Resource discovery, delete_nat_gateway.py *)

\* vpc_list of _find_vpc_id_by_name: one VpcId per matching tag, in order.
RECURSIVE D_vpc_list(_, _)
D_vpc_list(items, needle) ==
    IF items = <<>> THEN <<>>
    ELSE Repeat(Head(items).VpcId, NameTagMatches(Head(items).Tags, needle))
            \o D_vpc_list(Tail(items), needle)

\* The lookup returning the first match where it should raise on several.
D_find_vpc_id_by_name_several(workspace_id) ==
    LET vpc_list == D_vpc_list(vpcs, WorkerenvName(workspace_id))
    IN  IF Len(vpc_list) >= 1 THEN Ok(vpc_list[1])
        ELSE Raise("ValueError")

D_find_vpc_id_by_name(workspace_id) ==
    LET vpc_list == D_vpc_list(vpcs, WorkerenvName(workspace_id))
    IN  IF Len(vpc_list) = 1 THEN Ok(vpc_list[1])
        ELSE IF Len(vpc_list) > 1 THEN Raise("ValueError")
        ELSE Raise("ValueError")

D_find_default_route_table_by_vpcid(vpc_id) ==
    LET response == DescribeMainRouteTables(vpc_id)
    IN  IF Len(response) = 0 THEN Raise("IndexError")
        ELSE Ok(response[1].RouteTableId)

D_find_subnet_id_for_natgw_by_vpc_id(vpc_id) ==
    LET matched_subnets == MatchedByNameTag(DescribeSubnets(vpc_id), NatSubnetName)
    IN  IF Len(matched_subnets) # 1 THEN Raise("ValueError")
        ELSE Ok(matched_subnets[1].SubnetId)

\* The lookup settling for the first gateway instead of requiring exactly one.
D_find_natgw_id_by_subnet_id_first(subnet_id) ==
    LET response == DescribeAvailableNatGateways(subnet_id)
    IN  IF Len(response) = 0 THEN Raise("ValueError")
        ELSE Ok(response[1].NatGatewayId)

D_find_natgw_id_by_subnet_id(subnet_id) ==
    LET response == DescribeAvailableNatGateways(subnet_id)
    IN  IF Len(response) # 1 THEN Raise("ValueError")
        ELSE Ok(response[1].NatGatewayId)

D_find_eip_association_id_by_natgw_id(natgw_id) ==
    LET response == DescribeNatGatewaysById(natgw_id)
    IN  IF Len(response) # 1 THEN Raise("ValueError")
        ELSE Ok(response[1].AllocationId)

-----------------------------------------------------------------------------
(* DeleteNATGateway, src/aws/delete_nat_gateway.py *)

\* run() with the gateway deleted before the default route.
D_run_after_gateway_first(step) ==
    CASE step = "find_vpc" -> "find_route_table"
      [] step = "find_route_table" -> "find_subnet"
      [] step = "find_subnet" -> "find_natgw"
      [] step = "find_natgw" -> "find_eip"
      [] step = "find_eip" -> "check_routes"
      [] step = "check_routes" -> "delete_natgw"
      [] step = "delete_natgw" -> "delete_route"
      [] step = "delete_route" -> "release_eip"
      [] step = "release_eip" -> "returned"

\* run() with the elastic IP released before the gateway is deleted.
D_run_after_release_first(step) ==
    CASE step = "find_vpc" -> "find_route_table"
      [] step = "find_route_table" -> "find_subnet"
      [] step = "find_subnet" -> "find_natgw"
      [] step = "find_natgw" -> "find_eip"
      [] step = "find_eip" -> "check_routes"
      [] step = "check_routes" -> "delete_route"
      [] step = "delete_route" -> "release_eip"
      [] step = "release_eip" -> "delete_natgw"
      [] step = "delete_natgw" -> "returned"

\* The statement that follows a completed statement of __init__ and run().
D_run_after(step) ==
    CASE step = "find_vpc" -> "find_route_table"
      [] step = "find_route_table" -> "find_subnet"
      [] step = "find_subnet" -> "find_natgw"
      [] step = "find_natgw" -> "find_eip"
      [] step = "find_eip" -> "check_routes"
      [] step = "check_routes" -> "delete_route"
      [] step = "delete_route" -> "delete_natgw"
      [] step = "delete_natgw" -> "release_eip"
      [] step = "release_eip" -> "returned"

\* __init__, line 18: self.vpc_id = self._find_vpc_id_by_name(workspace_id)
D_init_vpc_id(ws) ==
    /\ deleter.pc = "new"
    /\ creator.pc \in {"new", "returned"}
    /\ \E res \in {"ok", "client_error"} :
        LET r == IF res = "ok" THEN D_find_vpc_id_by_name(ws) ELSE Raise("ClientError")
            d == [deleter EXCEPT !.workspace_id = ws]
        IN  /\ deleter' = IF r.exc # "" THEN Raised(d, r.exc)
                          ELSE [d EXCEPT !.pc = D_run_after("find_vpc"), !.vpc_id = r.val]
            /\ Logged(Call("delete", "describe_vpcs", <<>>, res, r.val))
    /\ UNCHANGED <<cloud, creator>>

\* __init__, line 19: self.route_table = self._find_default_route_table_by_vpcid(self.vpc_id)
D_init_route_table ==
    /\ deleter.pc = "find_route_table"
    /\ \E res \in {"ok", "client_error"} :
        LET r == IF res = "ok" THEN D_find_default_route_table_by_vpcid(deleter.vpc_id)
                 ELSE Raise("ClientError")
        IN  /\ deleter' = IF r.exc # "" THEN Raised(deleter, r.exc)
                          ELSE [deleter EXCEPT !.pc = D_run_after("find_route_table"), !.route_table = r.val]
            /\ Logged(Call("delete", "describe_route_tables", <<deleter.vpc_id>>, res, r.val))
    /\ UNCHANGED <<cloud, creator>>

\* __init__, line 20: self.subnet_id_for_natgw = self._find_subnet_id_for_natgw_by_vpc_id(self.vpc_id)
D_init_subnet_id ==
    /\ deleter.pc = "find_subnet"
    /\ \E res \in {"ok", "client_error"} :
        LET r == IF res = "ok" THEN D_find_subnet_id_for_natgw_by_vpc_id(deleter.vpc_id)
                 ELSE Raise("ClientError")
        IN  /\ deleter' = IF r.exc # "" THEN Raised(deleter, r.exc)
                          ELSE [deleter EXCEPT !.pc = D_run_after("find_subnet"), !.subnet_id_for_natgw = r.val]
            /\ Logged(Call("delete", "describe_subnets", <<deleter.vpc_id>>, res, r.val))
    /\ UNCHANGED <<cloud, creator>>

\* __init__, line 85: self.natgw_id = self._find_natgw_id_by_subnet_id()
D_init_natgw_id ==
    /\ deleter.pc = "find_natgw"
    /\ \E res \in {"ok", "client_error"} :
        LET r == IF res = "ok" THEN D_find_natgw_id_by_subnet_id(deleter.subnet_id_for_natgw)
                 ELSE Raise("ClientError")
        IN  /\ deleter' = IF r.exc # "" THEN Raised(deleter, r.exc)
                          ELSE [deleter EXCEPT !.pc = D_run_after("find_natgw"), !.natgw_id = r.val]
            /\ Logged(Call("delete", "describe_nat_gateways_by_subnet",
                           <<deleter.subnet_id_for_natgw>>, res, r.val))
    /\ UNCHANGED <<cloud, creator>>

\* __init__, line 86: self.eip_association_id = self._find_eip_association_id_by_natgw_id()
D_init_eip_association_id ==
    /\ deleter.pc = "find_eip"
    /\ \E res \in {"ok", "client_error"} :
        LET r == IF res = "ok" THEN D_find_eip_association_id_by_natgw_id(deleter.natgw_id)
                 ELSE Raise("ClientError")
        IN  /\ deleter' = IF r.exc # "" THEN Raised(deleter, r.exc)
                          ELSE [deleter EXCEPT !.pc = D_run_after("find_eip"), !.eip_association_id = r.val]
            /\ Logged(Call("delete", "describe_nat_gateways_by_id", <<deleter.natgw_id>>, res, r.val))
    /\ UNCHANGED <<cloud, creator>>

\* The except clause re-raising what the route query raised.
check_routes_in_route_table_except_raise(e) == "raise"

\* The except clause of check_routes_in_route_table (lines 170-171): every
\* Exception is logged and the method returns.
check_routes_in_route_table_except(e) == "log"

\* run, line 181: check_routes_in_route_table() logs the routes; except Exception
\* logs whatever the query raised (lines 164-171)
D_check_routes_in_route_table ==
    /\ deleter.pc = "check_routes"
    /\ \E res \in {"ok", "client_error"} :
        /\ deleter' = IF \/ res = "ok" /\ Len(DescribeRouteTablesById(deleter.route_table)) > 0
                         \/ check_routes_in_route_table_except("ClientError") = "log"
                      THEN [deleter EXCEPT !.pc = D_run_after("check_routes")]
                      ELSE Raised(deleter, "ClientError")
        /\ Logged(Call("delete", "describe_route_tables_by_id", <<deleter.route_table>>, res, 0))
    /\ UNCHANGED <<cloud, creator>>

\* The branch of delete_route_to_natgw on the routes it read (lines 121-128).
delete_route_to_natgw(routes) ==
    IF \E route \in routes : route.DestinationCidrBlock = DefaultCidr THEN "delete" ELSE "warn"

\* The except clause re-raising what it caught.
delete_route_to_natgw_except_raise(e) == "raise"

\* The except clause of delete_route_to_natgw (lines 129-130): every Exception is
\* logged and the method returns.
delete_route_to_natgw_except(e) == "log"

\* run, line 182, first half of delete_route_to_natgw: the route query (lines 119-121);
\* except Exception (line 129) logs what it raised and the method returns
D_delete_route_to_natgw_query ==
    /\ deleter.pc = "delete_route"
    /\ \E res \in {"ok", "client_error"} :
        LET response == DescribeRouteTablesById(deleter.route_table)
            branch == IF res = "ok" /\ Len(response) > 0
                      THEN delete_route_to_natgw(response[1].Routes)
                      ELSE "except"
        IN  /\ deleter' = IF branch = "delete" THEN [deleter EXCEPT !.pc = "delete_route_call"]
                          ELSE IF branch = "warn" \/ delete_route_to_natgw_except("ClientError") = "log"
                              THEN [deleter EXCEPT !.pc = D_run_after("delete_route")]
                          ELSE Raised(deleter, "ClientError")
            /\ Logged(Call("delete", "describe_route_tables_by_id", <<deleter.route_table>>, res, 0))
    /\ UNCHANGED <<cloud, creator>>

\* run, line 182, second half of delete_route_to_natgw: the delete_route call
\* (lines 122-126); except Exception (line 129) logs what it raised
D_delete_route_to_natgw_delete ==
    /\ deleter.pc = "delete_route_call"
    /\ \E fault \in {"none", "http_error", "client_error"} :
        LET present == DefaultRoutes(RoutesOf(routeTables, deleter.route_table)) # {}
            res == IF fault = "client_error" THEN "UnauthorizedOperation"
                   ELSE IF fault = "http_error" THEN fault
                   ELSE IF ~present THEN "InvalidRoute.NotFound"
                   ELSE "ok"
        IN  /\ routeTables' = IF res = "ok" THEN RoutesAfterDelete(routeTables, deleter.route_table)
                              ELSE routeTables
            /\ deleter' = IF res \in {"ok", "http_error"}
                                \/ delete_route_to_natgw_except("ClientError") = "log"
                              THEN [deleter EXCEPT !.pc = D_run_after("delete_route")]
                          ELSE Raised(deleter, "ClientError")
            /\ Logged(Call("delete", "delete_route", <<deleter.route_table>>, res, 0))
    /\ UNCHANGED <<vpcs, subnets, natGateways, addresses, creator>>

\* run, line 183, first half of delete_natgw: the delete_nat_gateway call (lines 136-145)
D_delete_natgw ==
    /\ deleter.pc = "delete_natgw"
    /\ \E res \in {"ok", "http_error", "client_error"} :
        /\ natGateways' = IF res = "ok"
                          THEN [i \in 1..Len(natGateways) |->
                                  IF natGateways[i].NatGatewayId = deleter.natgw_id
                                  THEN [natGateways[i] EXCEPT !.State = "deleting"]
                                  ELSE natGateways[i]]
                          ELSE natGateways
        /\ deleter' = IF res = "ok" THEN [deleter EXCEPT !.pc = "wait_deleted"]
                      ELSE IF res = "http_error" THEN Raised(deleter, "ValueError")
                      ELSE Raised(deleter, "ClientError")
        /\ Logged(Call("delete", "delete_nat_gateway", <<deleter.natgw_id>>, res, 0))
    /\ UNCHANGED <<vpcs, routeTables, subnets, addresses, creator>>

\* run, line 183, second half of delete_natgw: the nat_gateway_deleted waiter
\* (lines 141-142) returns once the gateway is deleted, or gives up with WaiterError
D_delete_natgw_wait ==
    /\ deleter.pc = "wait_deleted"
    /\ LET response == DescribeNatGatewaysById(deleter.natgw_id)
           deleted == \A i \in 1..Len(response) : response[i].State = "deleted"
       IN  \E res \in {"ok", "waiter_error"} :
            /\ res = "ok" => deleted
            /\ deleter' = IF res = "ok" THEN [deleter EXCEPT !.pc = D_run_after("delete_natgw")]
                          ELSE Raised(deleter, "WaiterError")
            /\ Logged(Call("delete", "wait_nat_gateway_deleted", <<deleter.natgw_id>>, res, 0))
    /\ UNCHANGED <<cloud, creator>>

\* Elastic IP allocations a NAT gateway still holds.
InUse == { natGateways[i].AllocationId :
             i \in { j \in 1..Len(natGateways) : natGateways[j].State \notin {"deleted", "failed"} } }

\* run, line 184: release_eip() (lines 151-157), then run returns
D_release_eip ==
    /\ deleter.pc = "release_eip"
    /\ \E fault \in {"none", "http_error", "client_error"} :
        LET id == deleter.eip_association_id
            res == IF fault = "client_error" THEN "UnauthorizedOperation"
                   ELSE IF fault = "http_error" THEN fault
                   ELSE IF id \notin addresses THEN "InvalidAllocationID.NotFound"
                   ELSE IF id \in InUse THEN "AuthFailure"
                   ELSE "ok"
        IN  /\ addresses' = IF res = "ok" THEN addresses \ {id} ELSE addresses
            /\ deleter' = IF res = "ok" THEN [deleter EXCEPT !.pc = D_run_after("release_eip")]
                          ELSE IF res = "http_error" THEN Raised(deleter, "ValueError")
                          ELSE Raised(deleter, "ClientError")
            /\ Logged(Call("delete", "release_address", <<id>>, res, 0))
    /\ UNCHANGED <<vpcs, routeTables, subnets, natGateways, creator>>

-----------------------------------------------------------------------------
(* Accounts the scripts are run against *)

VpcLists ==
    { [i \in 1..Len(f) |-> [VpcId |-> i, Tags |-> f[i]]] :
        f \in ListsUpTo(VpcTagChoices, MaxVpcs) }

RouteTableLists(default) ==
    { [i \in 1..Len(f) |->
          [RouteTableId |-> i, VpcId |-> f[i].VpcId, Main |-> f[i].Main,
           Routes |-> {LocalRoute} \cup default]] :
        f \in ListsUpTo([VpcId : 1..MaxVpcs, Main : BOOLEAN], MaxRouteTables) }

SubnetLists ==
    { [i \in 1..Len(f) |-> [SubnetId |-> i, VpcId |-> f[i].VpcId, Tags |-> f[i].Tags]] :
        f \in ListsUpTo([VpcId : 1..MaxVpcs, Tags : SubnetTagChoices], MaxSubnets) }

GatewayLists ==
    { [i \in 1..Len(f) |->
          [NatGatewayId |-> i, SubnetId |-> f[i].SubnetId, State |-> f[i].State,
           AllocationId |-> i]] :
        f \in ListsUpTo([SubnetId : 1..MaxVpcs, State : {"available", "deleted"}],
                        MaxGateways) }

\* The account as the workspace deployment leaves it: VPC 1 is the workspace's,
\* every VPC has one main route table and one subnet tagged for the NAT gateway.
BaseVpcs ==
    [i \in 1..MaxVpcs |->
        [VpcId |-> i,
         Tags |-> IF i = 1 THEN <<Tag("Name", <<"workerenv-", "1">>)>>
                  ELSE <<Tag("Name", <<"default">>)>>]]

BaseRouteTables(default) ==
    [i \in 1..MaxVpcs |->
        [RouteTableId |-> i, VpcId |-> i, Main |-> TRUE,
         Routes |-> {LocalRoute} \cup (IF i = 1 THEN default ELSE {IgwRoute})]]

BaseSubnets ==
    [i \in 1..MaxVpcs |->
        [SubnetId |-> i, VpcId |-> i, Tags |-> <<Tag("Name", <<"nat-gateway-subnet">>)>>]]

InitScripts ==
    /\ creator = NewScript
    /\ deleter = NewScript
    /\ calls = <<>>

InitVpcs ==
    /\ vpcs \in VpcLists
    /\ \E default \in {{}, {IgwRoute}} : routeTables = BaseRouteTables(default)
    /\ subnets = BaseSubnets
    /\ natGateways = <<>>
    /\ addresses = {}
    /\ InitScripts

InitRouteTables ==
    /\ vpcs = BaseVpcs
    /\ \E default \in {{}, {IgwRoute}} : routeTables \in RouteTableLists(default)
    /\ subnets = BaseSubnets
    /\ natGateways = <<>>
    /\ addresses = {}
    /\ InitScripts

InitSubnets ==
    /\ vpcs = BaseVpcs
    /\ routeTables = BaseRouteTables({IgwRoute})
    /\ subnets \in SubnetLists
    /\ natGateways = <<>>
    /\ addresses = {}
    /\ InitScripts

InitGateways ==
    /\ vpcs = BaseVpcs
    /\ natGateways \in GatewayLists
    /\ \E default \in {{}, {IgwRoute}} \cup { {NatRoute(g)} : g \in 1..Len(natGateways) } :
          routeTables = BaseRouteTables(default)
    /\ subnets = BaseSubnets
    /\ addresses = { natGateways[i].AllocationId : i \in 1..Len(natGateways) }
    /\ InitScripts

Init == InitVpcs \/ InitRouteTables \/ InitSubnets \/ InitGateways

Next ==
    \/ \E ws \in WorkspaceIds : C_init_vpc_id(ws)
    \/ C_init_route_table
    \/ C_init_subnet_id
    \/ C_create_eip
    \/ C_create_natgw
    \/ C_check_nat_gateway_status
    \/ C_update_route_table_delete
    \/ C_update_route_table_create
    \/ \E ws \in WorkspaceIds : D_init_vpc_id(ws)
    \/ D_init_route_table
    \/ D_init_subnet_id
    \/ D_init_natgw_id
    \/ D_init_eip_association_id
    \/ D_check_routes_in_route_table
    \/ D_delete_route_to_natgw_query
    \/ D_delete_route_to_natgw_delete
    \/ D_delete_natgw
    \/ D_delete_natgw_wait
    \/ D_release_eip
    \/ ProviderAdvance

Spec == Init /\ [][Next]_vars

-----------------------------------------------------------------------------
(* Properties *)

\* The calls one script issued, in order.
CallsBy(by) == SelectSeq(calls, LAMBDA c : c.by = by)

\* Positions in a call list of the calls to an API.
CallsTo(cs, api) == { i \in 1..Len(cs) : cs[i].api = api }

MainDefaultRoutes(obj) == DefaultRoutes(RoutesOf(routeTables, obj.route_table))

\* C1: when CreateNATGateway.run() returns, the calls it issued after the three
\* lookups are, in this order, allocate_address, create_nat_gateway with the
\* allocation id just returned and the located subnet, describe_nat_gateways polls
\* of the new gateway of which only the last reports available, delete_route and
\* create_route for the new gateway; run() returns the id create_nat_gateway gave,
\* and the only 0.0.0.0/0 route of the main route table targets that gateway.
C1_RunOrder ==
    (creator.pc = "returned" /\ deleter.pc = "new") =>
        LET cc == CallsBy("create")
            n == Len(cc)
        IN  /\ n >= 8
            /\ cc[4].api = "allocate_address" /\ cc[4].res = "ok"
            /\ cc[5].api = "create_nat_gateway" /\ cc[5].res = "ok"
            /\ cc[5].args = <<cc[4].out, creator.subnet_id_for_natgw>>
            /\ \A i \in 6..(n - 2) :
                /\ cc[i].api = "describe_nat_gateways"
                /\ cc[i].args = <<cc[5].out>>
                /\ cc[i].res = IF i = n - 2 THEN "available" ELSE "pending"
            /\ cc[n - 1].api = "delete_route" /\ cc[n - 1].args = <<creator.route_table>>
            /\ cc[n].api = "create_route" /\ cc[n].res = "ok"
            /\ cc[n].args = <<creator.route_table, cc[5].out>>
            /\ creator.ret = cc[5].out
            /\ MainDefaultRoutes(creator) = {NatRoute(creator.ret)}
            /\ \E i \in 1..Len(routeTables) :
                /\ routeTables[i].RouteTableId = creator.route_table
                /\ routeTables[i].VpcId = creator.vpc_id
                /\ routeTables[i].Main
            /\ \E i \in 1..Len(natGateways) :
                natGateways[i] = [NatGatewayId |-> creator.ret,
                                  SubnetId |-> creator.subnet_id_for_natgw,
                                  State |-> "available", AllocationId |-> cc[4].out]

\* run() returned after a poll that saw the gateway pending, and replaced a
\* default route that was there before.
C1_Witness ==
    /\ creator.pc = "returned"
    /\ deleter.pc = "new"
    /\ creator.polls >= 2
    /\ \E i \in CallsTo(calls, "delete_route") : calls[i].res = "ok"
    /\ MainDefaultRoutes(creator) = {NatRoute(creator.ret)}

\* C2: every release_address call of DeleteNATGateway.run() comes after a
\* delete_nat_gateway call for the gateway found at construction that the provider
\* accepted and after the nat_gateway_deleted wait for it was satisfied, in that
\* order; it releases that gateway's allocation, and when it is issued the
\* provider reports the gateway deleted.  When run() returns, the release was the
\* last call and the allocation is gone.
C2_ReleaseAfterDeleted ==
    LET dc == CallsBy("delete")
    IN  /\ \A k \in CallsTo(dc, "release_address") :
            /\ dc[k].args = <<deleter.eip_association_id>>
            /\ \E i \in 1..k : \E j \in 1..k :
                /\ i < j /\ j < k
                /\ dc[i].api = "delete_nat_gateway" /\ dc[i].res = "ok"
                /\ dc[i].args = <<deleter.natgw_id>>
                /\ dc[j].api = "wait_nat_gateway_deleted" /\ dc[j].res = "ok"
                /\ dc[j].args = <<deleter.natgw_id>>
            /\ \E g \in 1..Len(natGateways) :
                /\ natGateways[g].NatGatewayId = deleter.natgw_id
                /\ natGateways[g].AllocationId = deleter.eip_association_id
                /\ natGateways[g].State = "deleted"
        /\ deleter.pc = "returned" =>
            /\ Len(dc) > 0
            /\ dc[Len(dc)].api = "release_address" /\ dc[Len(dc)].res = "ok"
            /\ deleter.eip_association_id \notin addresses

\* run() returned: the gateway was deleted and its elastic IP released.
C2_Witness ==
    /\ deleter.pc = "returned"
    /\ \E k \in CallsTo(calls, "release_address") : calls[k].res = "ok"
    /\ \E g \in 1..Len(natGateways) :
        natGateways[g].NatGatewayId = deleter.natgw_id /\ natGateways[g].State = "deleted"

\* C3: among the polls of check_nat_gateway_status, a poll is followed by another
\* one only if it reported pending; a poll reporting anything other than pending
\* or available is the creator's last call and leaves the script raised with
\* ValueError; while the last poll reported pending the loop is still running; and
\* the method has returned (the statements after it have been reached) only if
\* the last poll reported available.
C3_AwaitAvailable ==
    LET cc == CallsBy("create")
        P == CallsTo(cc, "describe_nat_gateways")
    IN  /\ \A i \in P : (\E j \in P : j > i) => cc[i].res = "pending"
        /\ \A i \in P : cc[i].res \notin {"pending", "available"} =>
                /\ i = Len(cc)
                /\ creator.pc = "raised"
                /\ creator.exc = "ValueError"
        /\ \A i \in P : (cc[i].res = "pending" /\ i = Len(cc)) => creator.pc = "check_status"
        /\ (\/ creator.pc \in {"update_route_table", "create_route", "returned"}
            \/ CallsTo(cc, "delete_route") \cup CallsTo(cc, "create_route") # {}) =>
                \E i \in P : cc[i].res = "available" /\ \A j \in P : j <= i

\* The gateway was polled pending, then failed, and the script raised.
C3_Witness ==
    LET cc == CallsBy("create")
    IN  /\ creator.pc = "raised"
        /\ Len(cc) >= 2
        /\ cc[Len(cc)].api = "describe_nat_gateways" /\ cc[Len(cc)].res = "failed"
        /\ cc[Len(cc) - 1].api = "describe_nat_gateways" /\ cc[Len(cc) - 1].res = "pending"

\* C4: in update_route_table, a delete_route answered InvalidRoute.NotFound
\* because the main route table has no 0.0.0.0/0 route changes no route table and
\* raises nothing (the method goes on to create_route); a delete_route the
\* provider carried out leaves the table without a 0.0.0.0/0 route; and whenever
\* the method returns, the table has exactly one 0.0.0.0/0 route, the one to the
\* given gateway, whatever the table held before.
C4_RewriteDefaultRoute ==
    [][ /\ ( /\ creator.pc = "update_route_table"
             /\ creator' # creator
             /\ MainDefaultRoutes(creator) = {}
             /\ calls'[Len(calls')].res = "InvalidRoute.NotFound" ) =>
                /\ routeTables' = routeTables
                /\ creator'.pc = "create_route"
        /\ ( /\ creator.pc = "update_route_table"
             /\ creator' # creator
             /\ calls'[Len(calls')].res = "ok" ) =>
                /\ MainDefaultRoutes(creator) # {}
                /\ MainDefaultRoutes(creator)' = {}
                /\ creator'.pc = "create_route"
        /\ ( /\ creator.pc = "create_route"
             /\ creator'.pc = "returned" ) =>
                /\ MainDefaultRoutes(creator)' = {NatRoute(creator.natgw_id)}
                /\ Cardinality(MainDefaultRoutes(creator)') = 1
      ]_vars

\* update_route_table returned although its delete_route found no route to delete.
C4_Witness ==
    /\ creator.pc = "returned"
    /\ deleter.pc = "new"
    /\ \E i \in CallsTo(calls, "delete_route") : calls[i].res = "InvalidRoute.NotFound"
    /\ MainDefaultRoutes(creator) = {NatRoute(creator.natgw_id)}

\* The script object a call was issued by.
ScriptOf(c) == IF c.by = "create" THEN creator ELSE deleter

\* C5 as stated: a main-route-table lookup the provider answered returns the
\* VPC's route table with the main-association flag when there is exactly one,
\* and raises (returns no table id) when there are none or several.
C5_Original ==
    \A i \in CallsTo(calls, "describe_route_tables") :
        calls[i].res = "ok" =>
            LET main == DescribeMainRouteTables(calls[i].args[1])
            IN  IF Len(main) = 1
                THEN calls[i].out = main[1].RouteTableId
                ELSE calls[i].out = 0 /\ ScriptOf(calls[i]).pc = "raised"

\* C5 amended: a main-route-table lookup the provider answered raises
\* (IndexError, no table id) exactly when the VPC has no route table with the
\* main-association flag; when it has one or several, it raises nothing and
\* returns the first one the provider lists.
C5_FirstMainRouteTable ==
    \A i \in CallsTo(calls, "describe_route_tables") :
        calls[i].res = "ok" =>
            LET main == DescribeMainRouteTables(calls[i].args[1])
            IN  IF Len(main) = 0
                THEN /\ calls[i].out = 0
                     /\ ScriptOf(calls[i]).pc = "raised"
                     /\ ScriptOf(calls[i]).exc = "IndexError"
                ELSE /\ calls[i].out = main[1].RouteTableId
                     /\ ScriptOf(calls[i]).route_table = main[1].RouteTableId
                     /\ main[1].Main /\ main[1].VpcId = ScriptOf(calls[i]).vpc_id

\* A lookup in a VPC with two main route tables returned the first of them.
C5_Witness ==
    \E i \in CallsTo(calls, "describe_route_tables") :
        /\ calls[i].res = "ok"
        /\ Len(DescribeMainRouteTables(calls[i].args[1])) >= 2
        /\ calls[i].out = DescribeMainRouteTables(calls[i].args[1])[1].RouteTableId
        /\ ScriptOf(calls[i]).pc # "raised"

\* The VPCs (positions in the list) that carry a Name tag containing
\* workerenv-<workspace id>.
VpcsNamedFor(ws) ==
    { j \in 1..Len(vpcs) :
        \E t \in 1..Len(vpcs[j].Tags) :
            /\ vpcs[j].Tags[t].Key = "Name"
            /\ Contains(<<"workerenv-">> \o ws, vpcs[j].Tags[t].Value) }

\* C6: a VPC lookup (of either script) that the provider answered and for which
\* exactly one VPC carries a Name tag containing workerenv-<workspace id> returns
\* that VPC's id; every other VPC lookup returns no id, leaves the script raised
\* (with ValueError when the provider answered) and is the only call the script
\* ever issued.
C6_FindVpc ==
    \A i \in CallsTo(calls, "describe_vpcs") :
        LET s == ScriptOf(calls[i])
            M == VpcsNamedFor(s.workspace_id)
        IN  IF calls[i].res = "ok" /\ Cardinality(M) = 1
            THEN /\ \E j \in M : calls[i].out = vpcs[j].VpcId
                 /\ s.vpc_id = calls[i].out
                 /\ s.pc = "raised" => Len(CallsBy(calls[i].by)) > 1
            ELSE /\ calls[i].out = 0
                 /\ s.vpc_id = 0
                 /\ s.pc = "raised"
                 /\ calls[i].res = "ok" => s.exc = "ValueError"
                 /\ Len(CallsBy(calls[i].by)) = 1

\* Two VPCs match the workspace id, one of them only because its name contains
\* the id as a substring: the lookup raised and nothing else was called.
C6_Witness ==
    /\ creator.pc = "raised"
    /\ creator.exc = "ValueError"
    /\ Cardinality(VpcsNamedFor(creator.workspace_id)) = 2
    /\ Len(calls) = 1

\* The subnets (positions in the list) that carry a Name tag containing
\* nat-gateway-subnet.
SubnetsNamedForNat ==
    { j \in 1..Len(subnets) :
        \E t \in 1..Len(subnets[j].Tags) :
            /\ subnets[j].Tags[t].Key = "Name"
            /\ Contains(<<"nat-gateway-subnet">>, subnets[j].Tags[t].Value) }

\* C7: a subnet lookup (of either script) that the provider answered and for
\* which exactly one subnet of the located VPC carries a Name tag containing
\* nat-gateway-subnet returns that subnet's id; every other subnet lookup returns
\* no id and leaves the script raised (with ValueError when the provider
\* answered); a returned subnet is always one of the located VPC.
C7_FindNatSubnet ==
    \A i \in CallsTo(calls, "describe_subnets") :
        LET s == ScriptOf(calls[i])
            S == { j \in SubnetsNamedForNat : subnets[j].VpcId = s.vpc_id }
        IN  /\ calls[i].args = <<s.vpc_id>>
            /\ IF calls[i].res = "ok" /\ Cardinality(S) = 1
               THEN /\ \E j \in S : calls[i].out = subnets[j].SubnetId
                    /\ s.subnet_id_for_natgw = calls[i].out
                    /\ s.pc = "raised" => Len(CallsBy(calls[i].by)) > 3
               ELSE /\ calls[i].out = 0
                    /\ s.subnet_id_for_natgw = 0
                    /\ s.pc = "raised"
                    /\ calls[i].res = "ok" => s.exc = "ValueError"
                    /\ Len(CallsBy(calls[i].by)) = 3
            /\ \A j \in 1..Len(subnets) :
                subnets[j].SubnetId = calls[i].out => subnets[j].VpcId = s.vpc_id

\* The lookup returned the located VPC's tagged subnet although another VPC has
\* a tagged subnet too.
C7_Witness ==
    \E i \in CallsTo(calls, "describe_subnets") :
        /\ calls[i].out # 0
        /\ ScriptOf(calls[i]).subnet_id_for_natgw = calls[i].out
        /\ \E j \in SubnetsNamedForNat : subnets[j].VpcId # ScriptOf(calls[i]).vpc_id

\* Results of a creator call that make its step fail (delete_route's response is
\* not inspected, and InvalidRoute.NotFound is caught).
C_Failure(c) ==
    \/ c.res \in {"client_error", "UnauthorizedOperation", "RouteAlreadyExists"}
    \/ c.res = "http_error" /\ c.api # "delete_route"
    \/ c.api = "describe_nat_gateways" /\ c.res \notin {"pending", "available"}
    \/ c.api \in {"describe_vpcs", "describe_route_tables", "describe_subnets"} /\ c.out = 0

\* Position of a creator call's step in __init__ and run().
C_StepOf(api) ==
    CASE api = "describe_vpcs" -> 0
      [] api = "describe_route_tables" -> 0
      [] api = "describe_subnets" -> 0
      [] api = "allocate_address" -> 1
      [] api = "create_nat_gateway" -> 2
      [] api = "describe_nat_gateways" -> 3
      [] api = "delete_route" -> 4
      [] api = "create_route" -> 4

\* C8: in the creator, a failed call is the last call the script issues and
\* leaves it raised; the calls are issued in step order, so no call of a later
\* step follows a failure; the failing step and everything after it leave the
\* addresses and the route tables as they are and remove no gateway: once raised,
\* the allocated elastic IP is still allocated and the created gateway still
\* exists; and the route tables change only in a step that calls delete_route or
\* create_route, so a run that failed before step 4 left them untouched.
C8_AbortNoRollback ==
    [][ LET C == { i \in 1..Len(calls') : calls'[i].by = "create" }
            last == IF C = {} THEN 0 ELSE CHOOSE i \in C : \A j \in C : j <= i
        IN  /\ \A i \in C : C_Failure(calls'[i]) => (i = last /\ creator'.pc = "raised")
            /\ creator'.pc = "raised" => (last > 0 /\ C_Failure(calls'[last]))
            /\ \A i \in C : \A j \in C :
                  i < j => C_StepOf(calls'[i].api) <= C_StepOf(calls'[j].api)
            /\ (creator.pc # "raised" /\ creator'.pc = "raised") => cloud' = cloud
            /\ creator.pc = "raised" =>
                  /\ creator' = creator
                  /\ C = { i \in 1..Len(calls) : calls[i].by = "create" }
                  /\ addresses' = addresses
                  /\ routeTables' = routeTables
                  /\ Len(natGateways') = Len(natGateways)
            /\ creator'.pc = "raised" =>
                  \A i \in C :
                      /\ (calls'[i].api = "allocate_address" /\ calls'[i].res = "ok") =>
                            calls'[i].out \in addresses'
                      /\ (calls'[i].api = "create_nat_gateway" /\ calls'[i].res = "ok") =>
                            \E g \in 1..Len(natGateways') :
                                /\ natGateways'[g].NatGatewayId = calls'[i].out
                                /\ natGateways'[g].AllocationId = creator'.eip_association_id
                                /\ natGateways'[g].State \in {"pending", "available", "failed"}
            /\ (routeTables' # routeTables /\ deleter'.pc = "new") =>
                  /\ last > 0
                  /\ calls'[last].api \in {"delete_route", "create_route"}
      ]_vars

\* The new gateway went to failed: the script raised, the elastic IP is still
\* allocated, the gateway is still there and the default route is the old one.
C8_Witness ==
    LET cc == CallsBy("create")
    IN  /\ creator.pc = "raised"
        /\ Len(cc) > 0
        /\ cc[Len(cc)].api = "describe_nat_gateways" /\ cc[Len(cc)].res = "failed"
        /\ creator.eip_association_id \in addresses
        /\ \E g \in 1..Len(natGateways) : natGateways[g].NatGatewayId = creator.natgw_id
        /\ MainDefaultRoutes(creator) = {IgwRoute}

DeleterMutatingApis == {"delete_route", "delete_nat_gateway", "release_address"}

\* C9: the gateway lookup of the deleter's constructor, when the provider answers,
\* counts the gateways that are in the located subnet and in state available: with
\* exactly one it stores that gateway's id and construction goes on, otherwise
\* (none, several, or only gateways in other subnets or other states) it raises
\* ValueError; a deleter raised in its constructor has issued no delete_route,
\* delete_nat_gateway or release_address call, and a raised deleter never issues
\* another call.
C9_FindNatGatewayBySubnet ==
    [][ LET A == { g \in 1..Len(natGateways) :
                     /\ natGateways[g].SubnetId = deleter.subnet_id_for_natgw
                     /\ natGateways[g].State = "available" }
            c == calls'[Len(calls')]
        IN  /\ (deleter.pc = "find_natgw" /\ deleter' # deleter) =>
                  /\ c.api = "describe_nat_gateways_by_subnet"
                  /\ c.args = <<deleter.subnet_id_for_natgw>>
                  /\ IF c.res = "ok" /\ Cardinality(A) = 1
                     THEN /\ \E g \in A : deleter'.natgw_id = natGateways[g].NatGatewayId
                          /\ deleter'.pc = "find_eip"
                     ELSE /\ deleter'.natgw_id = 0
                          /\ deleter'.pc = "raised"
                          /\ c.res = "ok" => deleter'.exc = "ValueError"
            /\ (deleter'.pc = "raised" /\ deleter'.eip_association_id = 0) =>
                  \A i \in 1..Len(calls') :
                      calls'[i].by = "delete" => calls'[i].api \notin DeleterMutatingApis
            /\ deleter.pc = "raised" => (deleter' = deleter /\ calls' = calls)
      ]_vars

\* Two available gateways sit in the located subnet: construction raised and the
\* deleter issued no mutating call.
C9_Witness ==
    /\ deleter.pc = "raised"
    /\ deleter.exc = "ValueError"
    /\ deleter.subnet_id_for_natgw # 0
    /\ deleter.natgw_id = 0
    /\ Len(DescribeAvailableNatGateways(deleter.subnet_id_for_natgw)) = 2
    /\ calls[Len(calls)].api = "describe_nat_gateways_by_subnet"

\* C10: delete_route_to_natgw queries the route table and changes nothing by
\* that; if the query succeeds and shows a 0.0.0.0/0 route it calls delete_route
\* for the table, which removes the route when the provider carries it out and
\* changes nothing otherwise; if the query shows no such route, or fails, no
\* delete_route is called.  In every case, whatever the query or the delete call
\* answered, the script is not raised and its next statement is delete_natgw,
\* whose first call is delete_nat_gateway.
C10_DeleteDefaultRoute ==
    [][ LET c == calls'[Len(calls')]
        IN  /\ (deleter.pc = "delete_route" /\ deleter' # deleter) =>
                  /\ c.api = "describe_route_tables_by_id"
                  /\ routeTables' = routeTables
                  /\ deleter'.pc = IF c.res = "ok" /\ MainDefaultRoutes(deleter) # {}
                                   THEN "delete_route_call"
                                   ELSE "delete_natgw"
            /\ (deleter.pc = "delete_route_call" /\ deleter' # deleter) =>
                  /\ c.api = "delete_route"
                  /\ c.args = <<deleter.route_table>>
                  /\ c.res = "ok" => MainDefaultRoutes(deleter)' = {}
                  /\ c.res # "ok" => routeTables' = routeTables
                  /\ deleter'.pc = "delete_natgw"
            /\ (deleter.pc = "delete_natgw" /\ deleter' # deleter) =>
                  /\ c.api = "delete_nat_gateway"
                  /\ c.args = <<deleter.natgw_id>>
      ]_vars

\* The provider refused the delete_route call: the error was swallowed, the
\* default route is still there and the script stands before the gateway deletion.
C10_Witness ==
    /\ deleter.pc = "delete_natgw"
    /\ calls[Len(calls)].api = "delete_route"
    /\ calls[Len(calls)].res = "UnauthorizedOperation"
    /\ MainDefaultRoutes(deleter) # {}

\* C11: in the creator's update_route_table, after a delete_route answered
\* InvalidRoute.NotFound the script is not raised by it and goes on to the
\* create_route call; after a delete_route that raised any other error the script
\* is raised with that ClientError, the delete_route is its last call, no
\* create_route call is in the log and the route table has no route to the new
\* gateway.
C11_DeleteErrorPolicy ==
    \A i \in 1..Len(calls) :
        (calls[i].by = "create" /\ calls[i].api = "delete_route") =>
            IF calls[i].res \in {"ok", "http_error", "InvalidRoute.NotFound"}
            THEN \/ creator.pc = "create_route"
                 \/ /\ i < Len(calls)
                    /\ calls[i + 1].by = "create"
                    /\ calls[i + 1].api = "create_route"
                    /\ calls[i + 1].args = <<creator.route_table, creator.natgw_id>>
            ELSE /\ creator.pc = "raised"
                 /\ creator.exc = "ClientError"
                 /\ \A j \in 1..Len(calls) :
                        calls[j].by = "create" => (j <= i /\ calls[j].api # "create_route")
                 /\ NatRoute(creator.natgw_id) \notin RoutesOf(routeTables, creator.route_table)

\* The provider refused delete_route with another error: the script raised and
\* the old default route is still the table's default route.
C11_Witness ==
    /\ creator.pc = "raised"
    /\ calls[Len(calls)].api = "delete_route"
    /\ calls[Len(calls)].res = "UnauthorizedOperation"
    /\ MainDefaultRoutes(creator) = {IgwRoute}

\* The state of the creator's gateway as the provider holds it.
PolledState == DescribeNatGatewaysById(creator.natgw_id)[1].State

\* The polling loop is sequential code: an iteration that can run does run. The
\* provider is under no obligation to ever move a gateway out of pending.
LiveSpec == Init /\ [][Next]_vars /\ WF_vars(C_check_nat_gateway_status)

\* C12: every answered poll of check_nat_gateway_status that finds the gateway
\* pending leaves the loop running, neither returned nor raised, however many
\* polls came before; a poll that finds it available returns from the method; a
\* poll that finds it in any other state raises ValueError; and once the gateway
\* is no longer pending the loop does not go on for ever: the next poll ends it.
C12_PollUntilNotPending ==
    /\ [][ ( /\ creator.pc = "check_status"
             /\ creator' # creator
             /\ calls'[Len(calls')].res # "ClientError" ) =>
                /\ calls'[Len(calls')].api = "describe_nat_gateways"
                /\ calls'[Len(calls')].res = PolledState
                /\ creator'.polls = creator.polls + 1
                /\ PolledState = "pending" => creator'.pc = "check_status"
                /\ PolledState = "available" => creator'.pc = "update_route_table"
                /\ PolledState \notin {"pending", "available"} =>
                        creator'.pc = "raised" /\ creator'.exc = "ValueError"
       ]_vars
    /\ (creator.pc = "check_status" /\ PolledState # "pending") ~> (creator.pc # "check_status")

\* The loop still running after as many pending polls as the model follows.
C12_Witness ==
    /\ creator.pc = "check_status"
    /\ creator.polls = MaxPolls
    /\ PolledState = "pending"
    /\ \A i \in CallsTo(calls, "describe_nat_gateways") : calls[i].res = "pending"

\* Position of a deleter call's statement in __init__ and run().
D_StepOf(api) ==
    CASE api = "describe_route_tables_by_id" -> 1
      [] api = "delete_route" -> 2
      [] api = "delete_nat_gateway" -> 3
      [] api = "wait_nat_gateway_deleted" -> 4
      [] api = "release_address" -> 5
      [] OTHER -> 0

\* C13: after the lookups of the constructor, the calls of DeleteNATGateway.run()
\* are issued, none of them twice, in the order route query
\* of check_routes_in_route_table, route query and delete_route of
\* delete_route_to_natgw, delete_nat_gateway, the nat_gateway_deleted wait,
\* release_address; a delete_nat_gateway that is refused or a wait that fails
\* leaves the script raised with that call its last one, so no release_address is
\* issued; the raising step and everything after it leave the addresses and the
\* route tables as they are, so the elastic IP is still allocated and a default
\* route already deleted stays deleted.
C13_DeleteAbortNoRollback ==
    [][ LET D == { i \in 1..Len(calls') : calls'[i].by = "delete" }
            last == IF D = {} THEN 0 ELSE CHOOSE i \in D : \A j \in D : j <= i
        IN  /\ \A i \in D : \A j \in D :
                  i < j => /\ D_StepOf(calls'[i].api) <= D_StepOf(calls'[j].api)
                           /\ D_StepOf(calls'[i].api) = D_StepOf(calls'[j].api) =>
                                 D_StepOf(calls'[i].api) <= 1
            /\ Cardinality({ i \in D : calls'[i].api = "describe_route_tables_by_id" }) <= 2
            /\ \A i \in D :
                  ( /\ calls'[i].api \in {"delete_nat_gateway", "wait_nat_gateway_deleted"}
                    /\ calls'[i].res # "ok" ) =>
                        /\ i = last
                        /\ deleter'.pc = "raised"
                        /\ \A j \in D : calls'[j].api # "release_address"
                        /\ (\E j \in D : calls'[j].api = "delete_route" /\ calls'[j].res = "ok") =>
                              DefaultRoutes(RoutesOf(routeTables', deleter'.route_table)) = {}
            /\ ( /\ deleter.pc \in {"delete_natgw", "wait_deleted"}
                 /\ deleter'.pc = "raised" ) =>
                    /\ cloud' = cloud
                    /\ calls'[last].res # "ok"
            /\ deleter.pc = "raised" =>
                  /\ deleter' = deleter
                  /\ D = { i \in 1..Len(calls) : calls[i].by = "delete" }
                  /\ addresses' = addresses
                  /\ routeTables' = routeTables
      ]_vars

\* The wait for the deletion failed after the default route had been deleted: the
\* script raised, the route is gone and the elastic IP is still allocated.
C13_Witness ==
    /\ deleter.pc = "raised"
    /\ calls[Len(calls)].api = "wait_nat_gateway_deleted"
    /\ calls[Len(calls)].res = "waiter_error"
    /\ \E i \in 1..Len(calls) :
        calls[i].by = "delete" /\ calls[i].api = "delete_route" /\ calls[i].res = "ok"
    /\ MainDefaultRoutes(deleter) = {}
    /\ deleter.eip_association_id \in addresses

\* C14: when DeleteNATGateway.run() has returned, the main route table holds no
\* 0.0.0.0/0 route that targets the gateway the script deleted.
C14_DefaultRouteRemoved ==
    deleter.pc = "returned" => NatRoute(deleter.natgw_id) \notin MainDefaultRoutes(deleter)

\* C15: check_routes_in_route_table, whether its route query is answered or
\* raises, issues that one query, leaves the script not raised and at the next
\* statement of run() with every field as it was, and leaves the VPCs, route
\* tables, subnets, gateways and elastic IPs unchanged.
C15_CheckRoutesFrame ==
    [][ (deleter.pc = "check_routes" /\ deleter' # deleter) =>
            /\ deleter' = [deleter EXCEPT !.pc = "delete_route"]
            /\ deleter'.exc = ""
            /\ Len(calls') = Len(calls) + 1
            /\ calls'[Len(calls')].by = "delete"
            /\ calls'[Len(calls')].api = "describe_route_tables_by_id"
            /\ calls'[Len(calls')].args = <<deleter.route_table>>
            /\ routeTables' = routeTables
            /\ natGateways' = natGateways
            /\ addresses' = addresses
            /\ vpcs' = vpcs /\ subnets' = subnets
      ]_vars

\* The route query of check_routes_in_route_table raised and run() went on.
C15_Witness ==
    /\ deleter.pc = "delete_route"
    /\ calls[Len(calls)].by = "delete"
    /\ calls[Len(calls)].api = "describe_route_tables_by_id"
    /\ calls[Len(calls)].res = "client_error"

\* C16: in every account state and for every workspace id, the VPC lookups of the
\* two scripts either both raise or both return the same VPC id, and for every
\* VPC id the two main-route-table lookups and the two NAT-subnet lookups either
\* both raise or both return the same id.
C16_LookupsAgree ==
    LET Agree(c, d) == \/ c.exc # "" /\ d.exc # ""
                       \/ c.exc = "" /\ d.exc = "" /\ c.val = d.val
    IN  /\ \A ws \in WorkspaceIds :
            Agree(C_find_vpc_id_by_name(ws), D_find_vpc_id_by_name(ws))
        /\ \A vpc_id \in 0..MaxVpcs :
            /\ Agree(C_find_default_route_table_by_vpcid(vpc_id),
                     D_find_default_route_table_by_vpcid(vpc_id))
            /\ Agree(C_find_subnet_id_for_natgw_by_vpc_id(vpc_id),
                     D_find_subnet_id_for_natgw_by_vpc_id(vpc_id))

\* Both scripts were constructed for the same workspace and located the same
\* VPC, route table and subnet, in an account where the lookup for another
\* workspace id raises in both.
C16_Witness ==
    /\ creator.vpc_id # 0 /\ deleter.vpc_id = creator.vpc_id
    /\ creator.route_table # 0 /\ deleter.route_table = creator.route_table
    /\ creator.subnet_id_for_natgw # 0
    /\ deleter.subnet_id_for_natgw = creator.subnet_id_for_natgw
    /\ deleter.workspace_id = creator.workspace_id
    /\ \E ws \in WorkspaceIds :
        C_find_vpc_id_by_name(ws).exc # "" /\ D_find_vpc_id_by_name(ws).exc # ""

\* Positions in the log of the creator's polls that reported its gateway available.
AvailablePolls ==
    { i \in 1..Len(calls) : /\ calls[i].by = "create"
                            /\ calls[i].api = "describe_nat_gateways"
                            /\ calls[i].args = <<creator.natgw_id>>
                            /\ calls[i].res = "available" }

\* C17: during CreateNATGateway.run() every delete_route and create_route call
\* of the creator comes after a poll that reported the new gateway available; a
\* step of the creator changes the route tables only when such a poll is already
\* in the log; and while the creator is still polling, or has raised in the
\* polling loop, no route table has a route targeting the new gateway.
C17_RouteAfterAvailable ==
    [][ /\ \A i \in 1..Len(calls') :
              ( /\ calls'[i].by = "create"
                /\ calls'[i].api \in {"delete_route", "create_route"} ) =>
                    \E j \in AvailablePolls : j < i
        /\ (routeTables' # routeTables /\ creator' # creator) => AvailablePolls # {}
        /\ ( /\ creator'.natgw_id # 0
             /\ \/ creator'.pc = "check_status"
                \/ /\ creator'.pc = "raised"
                   /\ calls'[Len(calls')].api = "describe_nat_gateways" ) =>
                \A t \in 1..Len(routeTables') :
                    \A route \in routeTables'[t].Routes :
                        route.NatGatewayId # creator'.natgw_id
      ]_vars

\* The new gateway went from pending to failed and the script raised in the
\* polling loop: the default route is still the one that was there.
C17_Witness ==
    /\ creator.pc = "raised"
    /\ creator.polls = 2
    /\ calls[Len(calls)].api = "describe_nat_gateways"
    /\ calls[Len(calls)].res = "failed"
    /\ AvailablePolls = {}
    /\ MainDefaultRoutes(creator) = {IgwRoute}

\* C18: when CreateNATGateway.run() has returned and a DeleteNATGateway built
\* afterwards for the same workspace has returned from run(), with no other
\* available gateway in the tagged subnet, the deleter found the gateway and the
\* allocation the creator made, that gateway is deleted, that allocation is
\* released and the main route table has no 0.0.0.0/0 route.
C18_RoundTrip ==
    ( /\ creator.pc = "returned"
      /\ deleter.pc = "returned"
      /\ deleter.workspace_id = creator.workspace_id
      /\ \A g \in 1..Len(natGateways) :
            ( /\ natGateways[g].SubnetId = creator.subnet_id_for_natgw
              /\ natGateways[g].NatGatewayId # creator.ret ) =>
                    natGateways[g].State # "available" ) =>
        /\ deleter.natgw_id = creator.ret
        /\ deleter.eip_association_id = creator.eip_association_id
        /\ \E g \in 1..Len(natGateways) :
            /\ natGateways[g].NatGatewayId = creator.ret
            /\ natGateways[g].State = "deleted"
        /\ creator.eip_association_id \notin addresses
        /\ MainDefaultRoutes(deleter) = {}

====
